---- MODULE Spec2Model ----
(***************************************************************************)
(* Model of transcribe_mp3.py: the command-line front end (__main__), the  *)
(* transcription driver transcribe_audio_faster and the result writer      *)
(* save_text_with_backup.  The speech engine (WhisperModel and the segment *)
(* generator it returns) is the environment: it yields segment texts, ends *)
(* the stream, or raises.                                                  *)
(*                                                                         *)
(* A text is a sequence of Unicode code points.  A Python value that may be *)
(* None is a record [tag, text].  A file is <<>> when it does not exist and *)
(* <<content>> when it does; content is the text read back as UTF-8.       *)
(***************************************************************************)
EXTENDS Integers, Sequences, FiniteSets

VARIABLES
    \* ---- __main__ ----
    mpc,              \* position of the caller / of __main__
    cli,              \* the options as parsed (line 245), kept for reference
    args,             \* the argparse namespace, mutated by line 250
    audio_exists,     \* os.path.exists(audio_file_path)
    \* ---- transcribe_audio_faster ----
    pc,               \* position inside the driver
    drv,              \* the device / compute_type parameters the driver received
    model_kwargs,     \* kwargs of every WhisperModel(...) construction so far
    transcribe_calls, \* number of model.transcribe(...) calls
    full_text, segment_count, repetition_count, last_text,
    stream,           \* raw segment texts yielded so far
    disp,             \* what the loop did with each segment
    exc,              \* the exception raised inside the try block, if any
    raised_at,        \* the driver position where it was raised
    escaped,          \* the exception that left the driver, if any
    result,           \* the driver's return value
    \* ---- save_text_with_backup and the output directory ----
    out_file,         \* the file at output_path
    backup_file,      \* the file at output_path + ".backup"
    linked,           \* the two paths are hard links to one file
    last_save,        \* the latest writer call: its inputs, failure and return
    prev_save         \* the writer call before it

vars == << mpc, cli, args, audio_exists, pc, drv, model_kwargs, transcribe_calls,
           full_text, segment_count, repetition_count, last_text, stream, disp,
           exc, raised_at, escaped, result,
           out_file, backup_file, linked, last_save,
           prev_save >>

mainVars   == << mpc, cli, args >>
loopVars   == << full_text, segment_count, repetition_count, last_text, stream, disp >>
writerVars == << out_file, backup_file, linked, last_save, prev_save >>

----------------------------------------------------------------------------
(* Bounds and program constants *)

\* longest segment stream the engine yields in a direct call of the driver
MaxSegs == 6

\* longest segment stream in a run of the whole program
MaxMainSegs == 3

\* line 103: repetition_count > 3
RepeatThreshold == 3

\* line 101: len(current_text) > 10
MinLoopLen == 10

----------------------------------------------------------------------------
(* Python values *)

None == [tag |-> "None", text |-> <<>>]

Str(s) == [tag |-> "str", text |-> s]

Absent == <<>>

File(c) == <<c>>

----------------------------------------------------------------------------
(* Text operations *)

\* the line feed, the separator of line 132
LF == 10

\* the space, line 112
Space == 32

\* the code points str.strip() removes (those for which str.isspace() holds):
\* U+0009..U+000D, U+001C..U+001F, U+0020, U+0085, U+00A0, U+1680,
\* U+2000..U+200A, U+2028, U+2029, U+202F, U+205F, U+3000
Whitespace ==
    (9..13) \cup (28..31) \cup {Space, 133, 160, 5760} \cup (8192..8202)
        \cup {8232, 8233, 8239, 8287, 12288}

RECURSIVE LStrip(_)
LStrip(s) ==
    IF s = <<>> THEN <<>>
    ELSE IF Head(s) \in Whitespace THEN LStrip(Tail(s))
    ELSE s

RECURSIVE RStrip(_)
RStrip(s) ==
    IF s = <<>> THEN <<>>
    ELSE IF s[Len(s)] \in Whitespace THEN RStrip(SubSeq(s, 1, Len(s) - 1))
    ELSE s

\* segment.text.strip(), line 100
Strip(s) == RStrip(LStrip(s))

RECURSIVE JoinFrom(_, _)
JoinFrom(parts, i) ==
    IF i > Len(parts) THEN <<>>
    ELSE IF i = Len(parts) THEN parts[i]
    ELSE parts[i] \o <<LF>> \o JoinFrom(parts, i + 1)

\* "\n".join(full_text), line 132
Join(parts) == JoinFrom(parts, 1)

----------------------------------------------------------------------------
(* The loop-detection filter, lines 99-113 *)

\* variant: the length condition of line 101 left out
IsRepeat_AnyLength(cur, last) == cur = last

\* line 101: current_text == last_text and len(current_text) > 10
IsRepeat(cur, last) == cur = last /\ Len(cur) > MinLoopLen

\* variant: line 103 written with >= instead of >
LoopDetected_AtThreshold(count) == count >= RepeatThreshold

\* variant: line 103 acting one repetition later
LoopDetected_Late(count) == count > RepeatThreshold + 1

\* line 103: repetition_count > 3
LoopDetected(count) == count > RepeatThreshold

\* variant: line 112 without its condition
ShouldAppend_Always(cur) == TRUE

\* line 112: current_text and current_text not in ["", " "]
ShouldAppend(cur) == cur # <<>> /\ cur \notin {<<>>, <<Space>>}

----------------------------------------------------------------------------
(* Exceptions *)

\* kinds the engine may raise; "Exception" stands for any other subclass of
\* Exception (RuntimeError, ValueError, ZeroDivisionError, ...), "SystemExit"
\* for a BaseException that is neither an Exception nor a KeyboardInterrupt
ExcKinds == {"KeyboardInterrupt", "MemoryError", "Exception", "SystemExit"}

\* issubclass(kind, Exception)
IsException(k) == k \in {"MemoryError", "Exception", "OSError", "UnicodeEncodeError"}

\* variant: the driver without the except KeyboardInterrupt clause of line 145
Caught_NoInterrupt(k) == k = "MemoryError" \/ IsException(k)

\* the except clauses of the driver, lines 145, 148 and 155
Caught(k) == k = "KeyboardInterrupt" \/ k = "MemoryError" \/ IsException(k)

\* the except clause of the writer, line 178
WriterCaught(k) == IsException(k)

NoExc == "none"

----------------------------------------------------------------------------
(* Command line *)

\* choices of --device, line 211
Devices == {"cuda", "cpu"}

\* choices of --compute_type, line 218
ComputeTypes == {"float16", "int8_float16", "int8", "float32"}

\* variant: every CPU request forced to int8, float32 included
Normalize_AnyCpu(device, compute_type) ==
    IF device = "cpu" THEN "int8" ELSE compute_type

\* lines 248-250: the compute type after the CPU adjustment
Normalize(device, compute_type) ==
    IF device = "cpu" /\ compute_type \notin {"int8", "float32"}
    THEN "int8"
    ELSE compute_type

\* lines 21-28: the keyword arguments of WhisperModel
ModelKwargs(device, compute_type) ==
    {<<"device", device>>, <<"compute_type", compute_type>>}
        \cup (IF device = "cuda" THEN {<<"device_index", "0">>} ELSE {})

----------------------------------------------------------------------------
(* Inputs *)

\* a long text (11 times "a" once trimmed) with a space before and a line
\* feed after it
TextA == <<32, 97, 97, 97, 97, 97, 97, 97, 97, 97, 97, 97, 10>>

\* another long text, of two lines: 11 times "b", a line feed, 11 times "b"
TextB == <<98, 98, 98, 98, 98, 98, 98, 98, 98, 98, 98, 10,
           98, 98, 98, 98, 98, 98, 98, 98, 98, 98, 98>>

\* a text of exactly 10 characters once trimmed, with a form feed before it:
\* "ssss", a blank line, "ssss"
TextS == <<12, 115, 115, 115, 115, 10, 10, 115, 115, 115, 115>>

\* a whitespace-only text: space, form feed, no-break space, line feed
TextE == <<32, 12, 160, 10>>

\* segment texts the engine yields when the driver is called directly
SegTexts == {TextA, TextB, TextS, TextE}

\* segment texts the engine yields in a run of the whole program
MainTexts == {TextA, TextE}

\* the longest stream the engine yields to the driver in the run at hand
SegBound == IF mpc = "caller" THEN MaxSegs ELSE MaxMainSegs

\* texts handed to the writer when it is called directly
FileTexts == {<<>>, <<111, 107>>, <<110, 101, 119>>}

\* the steps of the writer's try block that can raise: os.rename (line 170),
\* the print of line 171, open (line 174), f.write and the close of the file
\* (line 175), the print of line 176
FailSteps == {"none", "rename", "print_backup", "open", "write", "print_saved"}

\* what a print(...) does: it returns ("ok"), or it raises: UnicodeEncodeError
\* on a standard output that cannot encode the message, OSError on one that
\* cannot be written (BrokenPipeError), KeyboardInterrupt
PrintExcKinds == {"UnicodeEncodeError", "OSError", "KeyboardInterrupt"}

PrintOutcomes == {"ok"} \cup PrintExcKinds

\* exceptions raised inside the writer: by the file operations, by a print on
\* a standard output that cannot encode the message, by the user's interrupt
WriterExcKinds == {"OSError", "UnicodeEncodeError", "KeyboardInterrupt"}

NoSave == [text |-> <<>>, pre_out |-> Absent, pre_backup |-> Absent,
           fail |-> "none", ret |-> "not called", raised |-> FALSE]

NoPrev == [text |-> <<>>, ret |-> "not called"]

NotCalled == [device |-> "none", compute_type |-> "none"]

----------------------------------------------------------------------------
(* Initial states *)

DriverIdle ==
    /\ pc = "idle"
    /\ drv = NotCalled
    /\ model_kwargs = <<>>
    /\ transcribe_calls = 0
    /\ full_text = <<>>
    /\ segment_count = 0
    /\ repetition_count = 0
    /\ last_text = <<>>
    /\ stream = <<>>
    /\ disp = <<>>
    /\ exc = NoExc
    /\ raised_at = "nowhere"
    /\ escaped = NoExc
    /\ result = None

WriterIdle ==
    /\ last_save = NoSave
    /\ prev_save = NoPrev

\* transcribe_audio_faster called directly with the defaults of line 8
InitDriver ==
    /\ mpc = "caller"
    /\ cli = NotCalled
    /\ args = NotCalled
    /\ audio_exists \in BOOLEAN
    /\ DriverIdle
    /\ WriterIdle
    /\ out_file = Absent
    /\ backup_file = Absent
    /\ linked = FALSE

\* one run of the program, after parser.parse_args() (line 245)
InitMain ==
    /\ mpc = "parsed"
    /\ \E d \in Devices, c \in ComputeTypes :
          /\ cli = [device |-> d, compute_type |-> c]
          /\ args = cli
    /\ audio_exists \in BOOLEAN
    /\ DriverIdle
    /\ WriterIdle
    /\ \E fs \in {<<Absent, Absent, FALSE>>,
                   <<File(<<111, 108, 100>>), Absent, FALSE>>,
                   <<File(<<111, 108, 100>>), File(<<111, 108, 100>>), TRUE>>} :
          /\ out_file = fs[1]
          /\ backup_file = fs[2]
          /\ linked = fs[3]

\* save_text_with_backup called repeatedly on one output path
InitWriter ==
    /\ mpc = "caller"
    /\ cli = NotCalled
    /\ args = NotCalled
    /\ audio_exists = FALSE
    /\ DriverIdle
    /\ WriterIdle
    /\ out_file \in {Absent} \cup {File(t) : t \in FileTexts}
    /\ backup_file \in {Absent} \cup {File(t) : t \in FileTexts}
    /\ linked \in BOOLEAN
    /\ linked => (out_file # Absent /\ backup_file = out_file)

----------------------------------------------------------------------------
(* transcribe_audio_faster *)

\* lines 8-15: entry, the print of line 12 (outside the try block), the check
\* that the audio file exists and the print of line 14.  p is what the first
\* print that fails does.
Call(device, compute_type, p) ==
    /\ pc = "idle"
    /\ drv' = [device |-> device, compute_type |-> compute_type]
    /\ IF p # "ok"
       THEN /\ pc' = "propagated"
            /\ escaped' = p
            /\ UNCHANGED result
       ELSE IF ~audio_exists
       THEN /\ pc' = "returned"
            /\ result' = None
            /\ UNCHANGED escaped
       ELSE /\ pc' = "loading"
            /\ UNCHANGED << result, escaped >>
    /\ UNCHANGED << audio_exists, model_kwargs, transcribe_calls, loopVars,
                    exc, raised_at, writerVars >>

\* a direct call with the default device and compute_type of line 8
DirectCall ==
    /\ mpc = "caller"
    /\ \E p \in PrintOutcomes : Call("cpu", "float32", p)
    /\ UNCHANGED mainVars

\* lines 17-31: WhisperModel(model_size, **model_kwargs) returns
LoadModel ==
    /\ pc = "loading"
    /\ model_kwargs' = Append(model_kwargs, ModelKwargs(drv.device, drv.compute_type))
    /\ pc' = "transcribing"
    /\ UNCHANGED << mainVars, audio_exists, drv, transcribe_calls, loopVars,
                    exc, raised_at, escaped, result, writerVars >>

\* lines 32-81: model.transcribe(...) returns the generator; the loop state is set
Transcribe ==
    /\ pc = "transcribing"
    /\ transcribe_calls' = transcribe_calls + 1
    /\ full_text' = <<>>
    /\ segment_count' = 0
    /\ repetition_count' = 0
    /\ last_text' = <<>>
    /\ pc' = "iterating"
    /\ UNCHANGED << mainVars, audio_exists, drv, model_kwargs, stream, disp,
                    exc, raised_at, escaped, result, writerVars >>

\* lines 84-117: one iteration of the loop over a segment with text t
NextSegment(t) ==
    LET cur == Strip(t)
        repeat == IsRepeat(cur, last_text)
        count == IF repeat THEN repetition_count + 1 ELSE 0
        skip == repeat /\ LoopDetected(count)
    IN  /\ pc = "iterating"
        /\ segment_count < SegBound
        /\ segment_count' = segment_count + 1
        /\ repetition_count' = count
        /\ last_text' = IF repeat THEN last_text ELSE cur
        /\ full_text' = IF ~skip /\ ShouldAppend(cur)
                        THEN Append(full_text, cur)
                        ELSE full_text
        /\ stream' = Append(stream, t)
        /\ disp' = Append(disp, IF skip THEN "skipped"
                                ELSE IF ShouldAppend(cur) THEN "kept"
                                ELSE "dropped")
        /\ UNCHANGED << mainVars, audio_exists, pc, drv, model_kwargs,
                        transcribe_calls, exc, raised_at, escaped, result, writerVars >>

\* lines 119-143: the generator is exhausted; the texts are joined and returned
EndOfStream ==
    /\ pc = "iterating"
    /\ result' = Str(Join(full_text))
    /\ pc' = "returned"
    /\ UNCHANGED << mainVars, audio_exists, drv, model_kwargs, transcribe_calls,
                    loopVars, exc, raised_at, escaped, writerVars >>

\* where the try block can be left by an exception: "outside" an iteration
\* of the loop (model load, model.transcribe, the generator, the reporting
\* before and after the loop, the end of an iteration), or inside an iteration
\* that has counted its segment (line 85) and is then at one of these points:
\*   "counted"   lines 86-101, the counters and the tracked text untouched
\*   "repeated"  lines 103-106 and 112, the repeat counter incremented (line 102)
\*   "reset"     between lines 108 and 109, the repeat counter set to 0
\*   "tracked"   lines 110-112, the tracked text replaced (line 109)
\* In all four the text of the segment has not been appended (line 113); an
\* exception after the append (lines 114-117) finds the loop as a finished
\* iteration leaves it, which is "outside".
RaisePoints == {"outside", "counted", "repeated", "reset", "tracked"}

\* can an exception of kind k be raised at the point at of an iteration on the
\* trimmed text cur: the prints of lines 92 and 104-105 and the expressions of
\* lines 86-100 can raise anything, the assignments only let an interrupt in,
\* and the append of line 113 can also run out of memory
CanRaise(at, k, cur) ==
    LET repeat == IsRepeat(cur, last_text)
        interrupt == k = "KeyboardInterrupt"
        append == k = "MemoryError" /\ ShouldAppend(cur)
    IN  CASE at \in {"outside", "counted"} -> TRUE
          [] at = "repeated" ->
                repeat /\ (LoopDetected(repetition_count + 1) \/ interrupt \/ append)
          [] at = "reset" -> ~repeat /\ interrupt
          [] at = "tracked" -> ~repeat /\ (interrupt \/ append)

\* an exception of kind k raised in the try block (lines 17-143) at the point
\* at, in an iteration on a segment with text t when at is inside the loop,
\* and the except clauses of lines 145-162.  h is what the prints of the
\* handler that runs do (lines 146, 149-153, 156-161): an exception raised
\* there leaves the driver.
RaiseInTry(k, h, t, at) ==
    /\ pc \in {"loading", "transcribing", "iterating"}
    /\ at # "outside" => (pc = "iterating" /\ segment_count < SegBound)
    /\ CanRaise(at, k, Strip(t))
    /\ ~Caught(k) => h = "ok"
    /\ exc' = k
    /\ raised_at' = pc
    /\ IF Caught(k) /\ h = "ok"
       THEN /\ pc' = "returned"
            /\ result' = None
            /\ UNCHANGED escaped
       ELSE /\ pc' = "propagated"
            /\ escaped' = IF Caught(k) THEN h ELSE k
            /\ UNCHANGED result
    /\ IF at = "outside"
       THEN UNCHANGED loopVars
       ELSE /\ segment_count' = segment_count + 1
            /\ stream' = Append(stream, t)
            /\ disp' = Append(disp, "aborted")
            /\ repetition_count' = CASE at = "counted" -> repetition_count
                                     [] at = "repeated" -> repetition_count + 1
                                     [] OTHER -> 0
            /\ last_text' = IF at = "tracked" THEN Strip(t) ELSE last_text
            /\ UNCHANGED full_text
    /\ UNCHANGED << mainVars, audio_exists, drv, model_kwargs, transcribe_calls,
                    writerVars >>

----------------------------------------------------------------------------
(* save_text_with_backup *)

\* lines 164-180.  fail names the step of the try block that raises (kind k),
\* n the number of characters that reached the file when the write fails,
\* h whether the print of the handler (line 179) raises in its turn.
\* os.rename replaces an existing backup where the platform allows it and
\* raises (fail = "rename") where it does not; when the two paths are hard
\* links to one file it succeeds without doing anything, and open(..., "w")
\* then truncates the file both names share.
SaveOutcome(text, out, backup, lnk, fail, n, k, h) ==
    LET exists == out # Absent
        moved == exists /\ fail # "rename" /\ ~lnk
        out1 == IF moved THEN Absent ELSE out
        backup1 == IF moved THEN out ELSE backup
        opened == fail \notin {"rename", "print_backup", "open"}
        out2 == IF ~opened THEN out1
                ELSE IF fail = "write" THEN File(SubSeq(text, 1, n))
                ELSE File(text)
        backup2 == IF opened /\ lnk THEN out2 ELSE backup1
    IN  [out |-> out2,
         backup |-> backup2,
         ret |-> IF fail = "none" THEN "True"
                 ELSE IF WriterCaught(k) /\ ~h THEN "False"
                 ELSE "raised"]

SaveTextWithBackup(text, fail, n, k, h) ==
    LET o == SaveOutcome(text, out_file, backup_file, linked, fail, n, k, h)
    IN  /\ fail \in {"rename", "print_backup"} => out_file # Absent
        /\ n \in 0..Len(text)
        /\ fail # "write" => n = Len(text)
        /\ (fail = "none" \/ ~WriterCaught(k)) => ~h
        /\ out_file' = o.out
        /\ backup_file' = o.backup
        /\ linked' = linked
        /\ last_save' = [text |-> text, pre_out |-> out_file,
                         pre_backup |-> backup_file, fail |-> fail,
                         ret |-> o.ret, raised |-> o.ret = "raised"]
        /\ prev_save' = [text |-> last_save.text, ret |-> last_save.ret]

\* the writer called directly
DirectSave ==
    /\ mpc = "caller"
    /\ \E text \in FileTexts, fail \in FailSteps, k \in WriterExcKinds, h \in BOOLEAN :
          \E n \in 0..Len(text) : SaveTextWithBackup(text, fail, n, k, h)
    /\ UNCHANGED << mainVars, audio_exists, pc, drv, model_kwargs, transcribe_calls,
                    loopVars, exc, raised_at, escaped, result >>

----------------------------------------------------------------------------
(* __main__ *)

\* lines 247-278: the CPU adjustment of the compute type (with its print,
\* line 249, before the assignment of line 250), the file size report (its
\* bare except swallows everything) and the banner.  at names the print that
\* raises, if one does: the program then ends with a traceback.
MainNormalize ==
    \E at \in {"none", "adjust_print", "banner"} :
        LET adjusted == Normalize(args.device, args.compute_type)
        IN  /\ mpc = "parsed"
            /\ at = "adjust_print" => adjusted # args.compute_type
            /\ args' = IF at = "adjust_print" THEN args
                       ELSE [args EXCEPT !.compute_type = adjusted]
            /\ mpc' = IF at = "none" THEN "normalized" ELSE "crashed"
            /\ UNCHANGED << cli, audio_exists, pc, drv, model_kwargs, transcribe_calls,
                            loopVars, exc, raised_at, escaped, result, writerVars >>

\* lines 281-289: the driver is called with the adjusted options
MainCall ==
    /\ mpc = "normalized"
    /\ \E p \in PrintOutcomes : Call(args.device, args.compute_type, p)
    /\ mpc' = "in_driver"
    /\ UNCHANGED << cli, args >>

\* lines 291-336, with write the test that decides whether the writer is
\* called.  at names the print that raises, if one does: "before" the writer
\* is reached (lines 291-316, or lines 329-336 when it is not called), or
\* "after" it returned (lines 325, 327, 336).  The program ends with a
\* traceback when a print raises and when the writer raises.
Finish(write) ==
    \E at \in {"none", "before", "after"} :
        /\ mpc = "in_driver"
        /\ pc = "returned"
        /\ at = "after" => write
        /\ IF write /\ at # "before"
           THEN \E fail \in FailSteps, n \in 0..Len(result.text), k \in WriterExcKinds,
                   h \in BOOLEAN :
                   SaveTextWithBackup(result.text, fail, n, k, h)
           ELSE UNCHANGED writerVars
        /\ at = "after" => ~last_save'.raised
        /\ mpc' = IF at = "none" /\ ~(write /\ last_save'.raised) THEN "done" ELSE "crashed"
        /\ UNCHANGED << cli, args, audio_exists, pc, drv, model_kwargs, transcribe_calls,
                        loopVars, exc, raised_at, escaped, result >>

\* variant: line 295 testing the truth of the result instead of "is not None"
MainFinish_Truthy == Finish(result # None /\ result.text # <<>>)

\* lines 291-336: the report, and the writer when the result is not None
MainFinish == Finish(result # None)

\* an exception the driver did not catch ends the program with a traceback
MainCrash ==
    /\ mpc = "in_driver"
    /\ pc = "propagated"
    /\ mpc' = "crashed"
    /\ UNCHANGED << cli, args, audio_exists, pc, drv, model_kwargs, transcribe_calls,
                    loopVars, exc, raised_at, escaped, result, writerVars >>

----------------------------------------------------------------------------
(* Specifications *)

\* the segment an exception at the point at finds in hand: one of texts inside
\* an iteration, none (written as the empty text) outside
InHand(at, texts) == IF at = "outside" THEN {<<>>} ELSE texts

NextDriver ==
    \/ DirectCall
    \/ LoadModel
    \/ Transcribe
    \/ \E t \in SegTexts : NextSegment(t)
    \/ EndOfStream
    \/ \E k \in ExcKinds, h \in PrintOutcomes, at \in RaisePoints :
          \E t \in InHand(at, SegTexts) : RaiseInTry(k, h, t, at)

NextMain ==
    \/ MainNormalize
    \/ MainCall
    \/ LoadModel
    \/ Transcribe
    \/ \E t \in MainTexts : NextSegment(t)
    \/ EndOfStream
    \/ \E k \in ExcKinds, h \in PrintOutcomes, at \in RaisePoints :
          \E t \in InHand(at, MainTexts) : RaiseInTry(k, h, t, at)
    \/ MainFinish
    \/ MainCrash

NextWriter == DirectSave

\* transcribe_audio_faster on every segment stream of up to MaxSegs segments
SpecDriver == InitDriver /\ [][NextDriver]_vars

\* one run of the whole program, on every segment stream of up to MaxMainSegs
\* segments
Spec == InitMain /\ [][NextMain]_vars

\* any sequence of writer calls on one output path
SpecWriter == InitWriter /\ [][NextWriter]_vars

----------------------------------------------------------------------------
(* Vocabulary of the properties *)

\* the trimmed texts of a stream, in arrival order
Trimmed(s) == [i \in 1..Len(s) |-> Strip(s[i])]

IsLong(t) == Len(t) > 10

\* empty or made of whitespace only
IsBlank(t) == \A i \in 1..Len(t) : t[i] \in Whitespace

LongTexts == {t \in {Strip(x) : x \in SegTexts} : IsLong(t)}

\* the driver went through the whole stream and returned at line 143
Completed == pc = "returned" /\ audio_exists /\ exc = NoExc

RECURSIVE LinesFrom(_, _, _)
LinesFrom(s, i, cur) ==
    IF i > Len(s) THEN <<cur>>
    ELSE IF s[i] = LF THEN <<cur>> \o LinesFrom(s, i + 1, <<>>)
    ELSE LinesFrom(s, i + 1, Append(cur, s[i]))

\* the lines of a text; the empty text has none
Lines(s) == IF s = <<>> THEN <<>> ELSE LinesFrom(s, 1, <<>>)

RECURSIVE LinesOfAll(_, _)
LinesOfAll(parts, i) ==
    IF i > Len(parts) THEN <<>> ELSE Lines(parts[i]) \o LinesOfAll(parts, i + 1)

RECURSIVE KeptFrom(_)
\* stream positions of the segments that are neither blank nor skipped
KeptFrom(i) ==
    IF i > Len(stream) THEN <<>>
    ELSE IF ~IsBlank(Strip(stream[i])) /\ disp[i] # "skipped"
         THEN <<i>> \o KeptFrom(i + 1)
         ELSE KeptFrom(i + 1)

KeptIdx == KeptFrom(1)

KeptTexts == [n \in 1..Len(KeptIdx) |-> Strip(stream[KeptIdx[n]])]

\* entries n..n+4 of a sequence are one and the same long text
FiveInARow(seq, n) ==
    /\ n + 4 <= Len(seq)
    /\ IsLong(seq[n])
    /\ \A m \in n..(n + 4) : seq[m] = seq[n]

----------------------------------------------------------------------------
(* C1 *)

\* C1 as stated: on the trimmed stream [a, a, a, a, b] (a, b long, a # b) the
\* 4th a is suppressed and b is retained.
C1_FourthSuppressed ==
    Completed =>
        \A a \in LongTexts, b \in LongTexts :
            (a # b /\ Trimmed(stream) = <<a, a, a, a, b>>)
                => (full_text = <<a, a, a, b>> /\ result = Str(Join(<<a, a, a, b>>)))

\* C1 (amended): in a run that goes through the whole stream, on the trimmed
\* stream [a, a, a, a, b] (a, b long, a # b) all four a and b are retained; the
\* filter first acts on the 5th a: on [a, a, a, a, a, b] the 5th a is skipped,
\* the result holds four a and then b, and the returned text is their
\* newline-join.
C1_FifthSuppressed ==
    Completed =>
        \A a \in LongTexts, b \in LongTexts :
            /\ (a # b /\ Trimmed(stream) = <<a, a, a, a, b>>)
                  => /\ full_text = <<a, a, a, a, b>>
                     /\ result = Str(Join(<<a, a, a, a, b>>))
            /\ (a # b /\ Trimmed(stream) = <<a, a, a, a, a, b>>)
                  => /\ full_text = <<a, a, a, a, b>>
                     /\ disp[5] = "skipped"
                     /\ result = Str(Join(<<a, a, a, a, b>>))

C1_Witness ==
    /\ Completed
    /\ stream = <<TextA, TextA, TextA, TextA, TextA, TextB>>
    /\ Len(full_text) = 5

----------------------------------------------------------------------------
(* C3 *)

\* C3 as stated: when the audio path does not exist the driver returns None,
\* and neither the model constructor nor model.transcribe is ever called.
C3_MissingFileNoEngine ==
    ~audio_exists =>
        /\ model_kwargs = <<>>
        /\ transcribe_calls = 0
        /\ pc \in {"idle", "returned"}
        /\ pc = "returned" => result = None

\* what holds of a missing path: the engine is never invoked, and the driver
\* returns None unless a print of lines 12-14 raises
C3_EngineNeverInvoked ==
    ~audio_exists =>
        /\ model_kwargs = <<>>
        /\ transcribe_calls = 0
        /\ pc \in {"idle", "returned", "propagated"}
        /\ pc = "returned" => result = None
        /\ pc = "propagated" => escaped \in PrintExcKinds

\* a missing path, and the driver raises instead of returning None
C3_EntryPrintRaises == ~audio_exists /\ pc = "propagated" /\ drv # NotCalled

----------------------------------------------------------------------------
(* C4 *)

\* C4 as stated: whatever is raised in the try block, the driver returns None
\* and nothing reaches the caller.
C4_NothingPropagates ==
    exc # NoExc => (pc = "returned" /\ result = None)

\* what holds of the try block: the driver never returns the text accumulated
\* before an exception; it returns None when the exception is a
\* KeyboardInterrupt, a MemoryError or another Exception and the prints of the
\* handler succeed, and raises otherwise
C4_CaughtKindsReturnNone ==
    exc # NoExc =>
        /\ pc \in {"returned", "propagated"}
        /\ pc = "returned" <=> (Caught(exc) /\ escaped = NoExc)
        /\ pc = "returned" => result = None
        /\ ~Caught(exc) => escaped = exc

\* an exception the except clauses catch, and the driver raises all the same
C4_HandlerRaises ==
    /\ exc = "Exception"
    /\ raised_at = "loading"
    /\ pc = "propagated"
    /\ escaped = "UnicodeEncodeError"

----------------------------------------------------------------------------
(* C5 *)

\* C5: an empty segment stream of an existing file, with no exception, makes
\* the driver return the empty string, not None; and when the program ends,
\* the writer was left uncalled exactly when the result is None (so the
\* empty result is written like any other).
C5_EmptyStreamIsEmptyString ==
    /\ (Completed /\ stream = <<>>) => (result = Str(<<>>) /\ result # None)
    /\ mpc = "done" => (last_save.ret = "not called" <=> result = None)
    /\ (mpc = "done" /\ result # None) => last_save.text = result.text

C5_Witness ==
    /\ mpc = "done"
    /\ Completed
    /\ stream = <<>>
    /\ last_save.ret = "True"
    /\ out_file = File(<<>>)

----------------------------------------------------------------------------
(* C6 *)

\* C6 as stated: the returned text of a completed run is the newline-join, in
\* arrival order, of the trimmed texts of the segments that are neither blank
\* nor skipped, and no line of it is empty or whitespace-only.
C6_NoBlankLine ==
    Completed =>
        /\ result = Str(Join(KeptTexts))
        /\ \A n \in 1..Len(Lines(result.text)) : ~IsBlank(Lines(result.text)[n])

\* C6 (amended): the returned text of a completed run is the newline-join, in
\* arrival order, of the trimmed texts of the segments that are neither blank
\* nor skipped; none of the joined texts is empty or whitespace-only, and the
\* lines of the output are the lines of those texts, so a blank line appears
\* only inside a retained text that holds one.
C6_JoinOfKept ==
    Completed =>
        /\ result = Str(Join(KeptTexts))
        /\ full_text = KeptTexts
        /\ \A n \in 1..Len(full_text) : ~IsBlank(full_text[n])
        /\ Lines(result.text) = LinesOfAll(full_text, 1)

C6_Witness ==
    /\ Completed
    /\ \E i \in 1..Len(disp) : disp[i] = "dropped"
    /\ \E i \in 1..Len(disp) : disp[i] = "skipped"
    /\ Len(full_text) >= 4

----------------------------------------------------------------------------
(* C7 *)

\* C7: the driver receives compute type int8 when the device is cpu and the
\* requested type is neither int8 nor float32, the requested type in every
\* other case, and always the requested device; the model is built with them.
C7_CpuForcesInt8 ==
    drv # NotCalled =>
        /\ drv.device = cli.device
        /\ (cli.device = "cpu" /\ cli.compute_type \in {"float16", "int8_float16"})
              => drv.compute_type = "int8"
        /\ (cli.device = "cuda" \/ cli.compute_type \in {"int8", "float32"})
              => drv.compute_type = cli.compute_type
        /\ \A n \in 1..Len(model_kwargs) :
              /\ <<"device", drv.device>> \in model_kwargs[n]
              /\ <<"compute_type", drv.compute_type>> \in model_kwargs[n]

C7_Witness ==
    /\ cli = [device |-> "cpu", compute_type |-> "float16"]
    /\ drv = [device |-> "cpu", compute_type |-> "int8"]
    /\ Len(model_kwargs) = 1

----------------------------------------------------------------------------
(* C8 *)

\* C8: in every iteration of the loop, with cur the trimmed text of the
\* segment: the repeat counter goes up by one only when cur equals the tracked
\* text and is longer than 10 characters, and nothing but cur is ever emitted;
\* and in every iteration that runs to its end: the counter goes up exactly
\* then; when it then exceeds 3 the segment is skipped and the tracked text
\* stays; a segment that differs from the tracked text resets the counter to 0,
\* becomes the tracked text and is emitted if non-empty; a non-empty text of 10
\* characters or fewer is always emitted.  An iteration that an exception cuts
\* short emits nothing.
C8_LoopRule ==
    [][ segment_count' = segment_count + 1 =>
          LET cur == Strip(stream'[Len(stream')])
              same == cur = last_text /\ Len(cur) > 10
              emitted == full_text' = Append(full_text, cur)
              silent == full_text' = full_text
          IN  /\ (repetition_count' = repetition_count + 1) => same
              /\ emitted \/ silent
              /\ exc' # NoExc => silent
              /\ exc' = NoExc =>
                    /\ same => repetition_count' = repetition_count + 1
                    /\ (same /\ repetition_count' > 3) => (silent /\ last_text' = last_text)
                    /\ (same /\ repetition_count' <= 3) => emitted
                    /\ cur # last_text =>
                          /\ repetition_count' = 0
                          /\ last_text' = cur
                          /\ IF cur # <<>> THEN emitted ELSE silent
                    /\ (cur # <<>> /\ Len(cur) <= 10) =>
                          (emitted /\ repetition_count' = 0)
      ]_vars

C8_ShortRepeats ==
    /\ Completed
    /\ stream = <<TextS, TextS, TextS, TextS, TextS, TextS>>
    /\ full_text = Trimmed(stream)
    /\ Len(full_text[1]) = 10
    /\ repetition_count = 0

C8_Witness ==
    /\ exc = NoExc
    /\ Len(stream) = 6
    /\ disp[5] = "skipped"
    /\ disp[6] = "kept"
    /\ repetition_count = 0

----------------------------------------------------------------------------
(* C9 *)

\* C9 as stated: no text longer than 10 characters is on more than 4
\* consecutive lines of the returned text.
C9_NeverFiveLines ==
    Completed =>
        \A n \in 1..Len(Lines(result.text)) : ~FiveInARow(Lines(result.text), n)

\* C9 (amended): in the text returned by a run that goes through the whole
\* stream, the lines are the lines of the retained texts, and a text longer
\* than 10 characters is retained more than 4 times in a row only when an empty
\* or whitespace-only segment arrived between those segments (it resets the
\* filter and is not emitted).  So when no segment is empty or whitespace-only
\* and no retained text holds a line feed, no text longer than 10 characters is
\* on more than 4 consecutive lines of the result.
C9_FiveOnlyAcrossBlank ==
    Completed =>
        /\ full_text = KeptTexts
        /\ Lines(result.text) = LinesOfAll(full_text, 1)
        /\ \A n \in 1..Len(full_text) :
              FiveInARow(full_text, n) =>
                  \E m \in (KeptIdx[n] + 1)..(KeptIdx[n + 4] - 1) : IsBlank(stream[m])
        /\ ( /\ \A m \in 1..Len(stream) : ~IsBlank(stream[m])
             /\ \A n \in 1..Len(full_text) : Lines(full_text[n]) = <<full_text[n]>> )
              => \A n \in 1..Len(Lines(result.text)) :
                    ~FiveInARow(Lines(result.text), n)

\* a long line five times in a row in the result of a stream without any blank
\* segment, where no text is retained five times in a row: the retained texts
\* hold several lines
C9_LinesInsideText ==
    /\ Completed
    /\ \A m \in 1..Len(stream) : ~IsBlank(stream[m])
    /\ \A n \in 1..Len(full_text) : ~FiveInARow(full_text, n)
    /\ \E n \in 1..Len(Lines(result.text)) : FiveInARow(Lines(result.text), n)

C9_Witness ==
    /\ Completed
    /\ FiveInARow(full_text, 1)
    /\ \E m \in 1..Len(stream) : IsBlank(stream[m])

----------------------------------------------------------------------------
(* C2 *)

\* C2: after a save that returns True on a path that held content C, the
\* backup holds exactly C, whatever backup was there before, and the path holds
\* exactly the new text; after two successful saves in a row the backup holds
\* the text written by the first of them.
C2_BackupHoldsPrevious ==
    /\ (last_save.ret = "True" /\ last_save.pre_out # Absent) =>
          /\ backup_file = last_save.pre_out
          /\ out_file = File(last_save.text)
    /\ (last_save.ret = "True" /\ prev_save.ret = "True") =>
          backup_file = File(prev_save.text)

\* the same on an output path and a backup path that are two files: holds
C2_DistinctFiles == ~linked => C2_BackupHoldsPrevious

C2_LinkedLosesOld ==
    /\ linked
    /\ last_save.ret = "True"
    /\ last_save.pre_out # File(last_save.text)
    /\ backup_file = out_file

----------------------------------------------------------------------------
(* C10 *)

\* C10: after any writer call made while the path held content C, C is at the
\* path or at the backup, whichever step failed; when the rename failed the path
\* still holds C and the backup is untouched; a failure is returned as False
\* and never raised.
C10_OldContentKept ==
    (last_save.ret # "not called" /\ last_save.pre_out # Absent) =>
        /\ out_file = last_save.pre_out \/ backup_file = last_save.pre_out
        /\ last_save.fail = "rename" =>
              (out_file = last_save.pre_out /\ backup_file = last_save.pre_backup)
        /\ last_save.fail # "none" => last_save.ret = "False"
        /\ last_save.ret \in {"True", "False"}

\* the first two parts of it on two distinct files: hold
C10_DistinctFilesKeepOld ==
    (~linked /\ last_save.ret # "not called" /\ last_save.pre_out # Absent) =>
        /\ out_file = last_save.pre_out \/ backup_file = last_save.pre_out
        /\ last_save.fail = "rename" =>
              (out_file = last_save.pre_out /\ backup_file = last_save.pre_backup)

C10_HandlerRaises ==
    /\ last_save.fail = "print_saved"
    /\ last_save.ret = "raised"
    /\ out_file = File(last_save.text)
    /\ backup_file = last_save.pre_out

====
